---- MODULE Spec2Model ----
(***************************************************************************)
(* EthicaDL backend (src/app.py): the in-memory job registry `jobs`, its   *)
(* lock `jobs_lock`, the background runner `run_download` with its two     *)
(* fetcher callbacks, the output resolver `resolve_final_file`, and the    *)
(* three request handlers api_download, api_status and api_file.           *)
(*                                                                         *)
(* Conventions.  Python None is None for strings and paths, and the empty  *)
(* tuple NoNum for numbers (a number v is Some(v)).  A percentage is kept  *)
(* in hundredths, so round(x, 2) is an integer: 33.33 is 3333, 100.0 is    *)
(* 10000.  A path is a string; DOWNLOAD_DIR / name is "downloads/" \o name.*)
(***************************************************************************)
EXTENDS Integers, Sequences, FiniteSets, TLC

\* ---------------------------------------------------------------- bounds
MaxJobs == 2
MaxEvents == 2
MaxTime == 12

\* ------------------------------------------------------- program constants
GraceSeconds == 5
ServerStart == GraceSeconds + 1

None == "None"
NoNum == <<>>
Some(v) == <<v>>
Free == 0

JobIds == 1..MaxJobs
Threads == 1..MaxJobs

DOWNLOAD_DIR == "downloads/"
InDir(name) == DOWNLOAD_DIR \o name

\* ------------------------------------------------------------ pure helpers

CharAt(s, i) == SubSeq(s, i, i)

Chars(s) == {CharAt(s, i) : i \in 1..Len(s)}

Max(S) == CHOOSE m \in S : \A x \in S : x <= m

\* str.rfind(".") over the final path component (0 when there is none)
LastSlash(p) ==
    LET S == {i \in 1..Len(p) : CharAt(p, i) = "/"} IN IF S = {} THEN 0 ELSE Max(S)

PathName(p) == SubSeq(p, LastSlash(p) + 1, Len(p))

\* pathlib's suffix: the last dot of the name, unless it leads or ends the name
PathSuffix(p) ==
    LET n == PathName(p)
        D == {i \in 1..Len(n) : CharAt(n, i) = "."}
        i == IF D = {} THEN 0 ELSE Max(D)
    IN IF i > 1 /\ i < Len(n) THEN SubSeq(n, i, Len(n)) ELSE ""

\* pathlib's with_suffix raises ValueError on a suffix that is "." or has no
\* leading dot
InvalidSuffix(sfx) == sfx = "." \/ CharAt(sfx, 1) # "." \/ "/" \in Chars(sfx)

with_suffix(p, sfx) == SubSeq(p, 1, Len(p) - Len(PathSuffix(p))) \o sfx

\* Path.glob(f"*[{video_id}].*"): the brackets make a character class, so a
\* name matches when one of the identifier's characters stands right before
\* a dot
GlobIdMatch(name, video_id) ==
    \E i \in 1..(Len(name) - 1) :
        CharAt(name, i) \in Chars(video_id) /\ CharAt(name, i + 1) = "."

\* round(downloaded / total * 100, 2), in hundredths, ties to even
Round2Percent(downloaded, total) ==
    LET x == downloaded * 10000
        q == x \div total
        r == x % total
    IN IF 2 * r < total THEN q
       ELSE IF 2 * r > total THEN q + 1
       ELSE IF q % 2 = 0 THEN q ELSE q + 1

\* str.strip() of blanks
RECURSIVE LStrip(_)
LStrip(s) == IF Len(s) > 0 /\ CharAt(s, 1) = " " THEN LStrip(Tail(s)) ELSE s

RECURSIVE RStrip(_)
RStrip(s) ==
    IF Len(s) > 0 /\ CharAt(s, Len(s)) = " " THEN RStrip(SubSeq(s, 1, Len(s) - 1))
    ELSE s

\* variant: the url is tested as it was sent
Strip_Verbatim(s) == s

Strip(s) == LStrip(RStrip(s))

\* ------------------------------------------------------- output resolver
\* `disk` maps each entry name of DOWNLOAD_DIR to its modification time.

Exists(disk, p) == \E n \in DOMAIN disk : InDir(n) = p

Newest(disk, S) == {n \in S : \A m \in S : disk[m] <= disk[n]}

\* find_final_file: the possible results (glob order breaks mtime ties)
find_final_file(disk, video_id) ==
    IF video_id = None \/ video_id = "" THEN {None}
    ELSE LET matches == {n \in DOMAIN disk : GlobIdMatch(n, video_id)}
         IN IF matches = {} THEN {None}
            ELSE {InDir(n) : n \in Newest(disk, matches)}

Truthy(s) == s # None /\ s # ""

ResolveVideoId(info, job) ==
    IF Truthy(job.video_id) THEN job.video_id
    ELSE IF Truthy(info.id) THEN info.id ELSE None

HookFn(info, job) ==
    IF Truthy(job.pp_filename) THEN job.pp_filename
    ELSE IF Truthy(job.filename) THEN job.filename
    ELSE IF Truthy(info.filename) THEN info.filename ELSE None

\* step 2: candidates derived from the one hint that HookFn selects
HintCandidates(info, job, selection, audio_fmt, merge) ==
    LET base == HookFn(info, job)
    IN IF base = None THEN <<>>
       ELSE <<base>> \o
            (IF selection = "10" THEN <<with_suffix(base, "." \o audio_fmt)>>
             ELSE (IF Truthy(merge) /\ merge # "auto"
                   THEN <<with_suffix(base, "." \o merge)>> ELSE <<>>)
                  \o <<with_suffix(base, ".mp4"), with_suffix(base, ".mkv")>>)

\* step 3: candidates derived from the title (and the identifier); the
\* extensions drawn here are lower case already, so lower() changes nothing
TitleCandidates(info, job, selection, audio_fmt, merge) ==
    LET video_id == ResolveVideoId(info, job)
        title == IF Truthy(info.title) THEN Strip(info.title) ELSE ""
        stem == IF video_id # None THEN title \o " [" \o video_id \o "]" ELSE title
        exts == <<(IF Truthy(merge) /\ merge # "auto" THEN merge ELSE ""),
                  info.ext, "mp4", "mkv", "webm">>
        Pick(e) == IF Strip(e) # "" THEN <<InDir(stem \o "." \o Strip(e))>> ELSE <<>>
    IN IF title = "" THEN <<>>
       ELSE IF selection = "10" THEN <<InDir(stem \o "." \o audio_fmt)>>
       ELSE Pick(exts[1]) \o Pick(exts[2]) \o Pick(exts[3]) \o Pick(exts[4])
            \o Pick(exts[5])

Candidates(info, job, selection, audio_fmt, merge) ==
    HintCandidates(info, job, selection, audio_fmt, merge)
        \o TitleCandidates(info, job, selection, audio_fmt, merge)

\* step 4: the newest entry, if it is not older than start_ts - 5
TemporalFallback(disk, start_ts) ==
    IF DOMAIN disk = {} THEN {None}
    ELSE LET recent == Newest(disk, DOMAIN disk)
         IN IF \E n \in recent : disk[n] >= start_ts - GraceSeconds
            THEN {InDir(n) : n \in recent} ELSE {None}

\* with_suffix raises ValueError while the step 2 candidates are built
resolve_raises(disk, info, job, selection, audio_fmt, merge) ==
    /\ None \in find_final_file(disk, ResolveVideoId(info, job))
    /\ HookFn(info, job) # None
    /\ IF selection = "10" THEN InvalidSuffix("." \o audio_fmt)
       ELSE Truthy(merge) /\ merge # "auto" /\ InvalidSuffix("." \o merge)

\* resolve_final_file: the set of paths it may return (None: no artifact)
resolve_final_file(disk, info, job, selection, audio_fmt, merge) ==
    LET byId == find_final_file(disk, ResolveVideoId(info, job))
        cands == Candidates(info, job, selection, audio_fmt, merge)
        hits == {i \in 1..Len(cands) : Exists(disk, cands[i])}
    IN IF byId # {None} THEN byId
       ELSE IF hits # {} THEN {cands[CHOOSE i \in hits : \A k \in hits : i <= k]}
       ELSE TemporalFallback(disk, job.start_ts)

\* ------------------------------------------------------------------ state

VARIABLES
    jobs,       \* the registry: job id -> job record (a Python dict)
    lock,       \* jobs_lock: Free, or the runner thread that holds it
    th,         \* the run_download thread of each submission
    disk,       \* DOWNLOAD_DIR: entry name -> mtime
    now,        \* time.time()
    sub,        \* the api_download request in progress
    returned,   \* job ids that api_download has returned to a caller
    fq,         \* the api_file request in progress
    resp,       \* the last response sent by a handler
    quota,      \* submissions the callers have yet to make
    nev         \* callbacks the fetcher has made so far

vars == <<jobs, lock, th, disk, now, sub, returned, fq, resp, quota, nev>>

States == {"queued", "starting", "downloading", "processing", "finished", "error"}

\* request payloads (JSON objects); NonStr stands for a JSON number
NonStr == "<number>"

Payload(u, r, a, c) ==
    [url |-> u, resolution |-> r, merge |-> "mp4", audioFmt |-> a, uaCustom |-> c]

NoPayload == Payload("", "4", "m4a", "")

Payloads ==
    {NoPayload, Payload(" ", "4", "m4a", ""), Payload("http://x", "4", "m4a", ""),
     Payload("http://x", "10", "", ""), Payload("http://x", "4", "m4a", NonStr)}

\* progress events d passed to hook: d["info_dict"]["id"] is id, d["filename"]
\* is filename, an absent key is None (0 for the byte totals)
Event(st, dl, tb, te, i, f) ==
    [status |-> st, downloaded_bytes |-> dl, total_bytes |-> tb,
     total_bytes_estimate |-> te, id |-> i, filename |-> f]

ProgressEvents ==
    {Event("downloading", Some(1), 2, 0, "a", InDir("v.webm")),
     Event("downloading", Some(2), 0, 1, "b", None),
     Event("downloading", Some(1), 0, 0, None, None),
     Event("downloading", NoNum, 2, 0, None, None),
     Event("finished", Some(2), 2, 0, None, InDir("v.webm")),
     Event("error", Some(0), 0, 0, None, None)}

\* the fetcher reports eta and speed when it knows them
EventEta(d) ==
    IF d.total_bytes = 0 \/ d.downloaded_bytes = NoNum THEN NoNum
    ELSE Some(d.total_bytes - d.downloaded_bytes[1])

EventSpeed(d) ==
    IF d.downloaded_bytes = NoNum \/ d.downloaded_bytes = Some(0) THEN NoNum
    ELSE Some(1)

\* postprocessor events: the path pp_hook extracts (None: nothing to record)
PostprocessPaths == {InDir("v.mp4")}

\* what extract_info returns: a dict, or something that is not one
NoInfo == [id |-> None, title |-> None, ext |-> "", filename |-> None]

Infos == {NoInfo, [id |-> "a", title |-> "T", ext |-> "webm", filename |-> None]}

\* files the fetcher may leave in DOWNLOAD_DIR
OutNames == {"v.mp4"}

IdleThread ==
    [pc |-> "idle", job_id |-> 0, payload |-> NoPayload, info |-> NoInfo,
     final_path |-> None, exc |-> None]

DoneThread(t) == [IdleThread EXCEPT !.pc = "done", !.job_id = th[t].job_id,
                                    !.exc = th[t].exc]

NoSub == [pc |-> "idle", job_id |-> 0, payload |-> NoPayload]

NoFq == [pc |-> "idle", job_id |-> 0, path |-> None]

NoResp == [op |-> "none", id |-> 0, code |-> 0]

Construct ==
    /\ jobs = <<>>
    /\ lock = Free
    /\ th = [t \in Threads |-> IdleThread]
    /\ disk = [n \in {"old.bin"} |-> 0]
    /\ now = ServerStart
    /\ sub = NoSub
    /\ returned = {}
    /\ fq = NoFq
    /\ resp = NoResp
    /\ nev = 0

\* one submission, with the whole system around it
Init == Construct /\ quota = 1

\* MaxJobs submissions
InitJobs == Construct /\ quota = MaxJobs

\* dict operations on the registry
Put(d, k, v) == [x \in DOMAIN d \cup {k} |-> IF x = k THEN v ELSE d[x]]

Del(d, k) == [x \in DOMAIN d \ {k} |-> d[x]]

\* ------------------------------------------------------------ api_download

\* uuid.uuid4().hex[:12]: a random identifier, taken as distinct from every
\* identifier already handed out.  Identifiers are interchangeable, so the
\* model hands them out in increasing order
FreshIds ==
    {j \in JobIds \ DOMAIN jobs : \A k \in JobIds \ DOMAIN jobs : j <= k}

NewJob(job_id, ts) ==
    [id |-> job_id, state |-> "queued", progress |-> Some(0), ready |-> FALSE,
     file |-> None, error |-> None, video_id |-> None, filename |-> None,
     pp_filename |-> None, start_ts |-> ts, merge_ext |-> "",
     eta |-> NoNum, speed |-> NoNum]

\* lines 322-325: a missing or blank url is answered 400
ApiDownloadReject(data) ==
    /\ sub.pc = "idle"
    /\ Strip(data.url) = ""
    /\ resp' = [op |-> "download", id |-> 0, code |-> 400]
    /\ UNCHANGED <<jobs, lock, th, disk, now, sub, returned, fq, quota, nev>>

\* variant: the identifier is handed to the caller but no record is stored
ApiDownloadInsert_NoRecord(data, job_id) ==
    /\ sub.pc = "idle"
    /\ Strip(data.url) # ""
    /\ quota > 0
    /\ lock = Free
    /\ returned' = returned \cup {job_id}
    /\ quota' = quota - 1
    /\ UNCHANGED <<jobs, lock, th, disk, now, sub, fq, resp, nev>>

\* lines 327-341: mint the identifier and insert the record under the lock
ApiDownloadInsert(data, job_id) ==
    /\ sub.pc = "idle"
    /\ Strip(data.url) # ""
    /\ quota > 0
    /\ lock = Free
    /\ jobs' = Put(jobs, job_id, NewJob(job_id, now))
    /\ sub' = [pc |-> "spawn", job_id |-> job_id, payload |-> data]
    /\ quota' = quota - 1
    /\ UNCHANGED <<lock, th, disk, now, returned, fq, resp, nev>>

\* lines 343-345: start the worker thread and return the identifier (one
\* step: the return touches nothing the thread reads)
ApiDownloadReturn ==
    /\ sub.pc = "spawn"
    /\ LET t == CHOOSE u \in Threads :
                    th[u].pc = "idle" /\ \A w \in Threads : th[w].pc = "idle" => u <= w
       IN th' = [th EXCEPT ![t] = [IdleThread EXCEPT !.pc = "setup",
                                                      !.job_id = sub.job_id,
                                                      !.payload = sub.payload]]
    /\ returned' = returned \cup {sub.job_id}
    /\ resp' = [op |-> "download", id |-> sub.job_id, code |-> 200]
    /\ sub' = NoSub
    /\ UNCHANGED <<jobs, lock, disk, now, fq, quota, nev>>

\* -------------------------------------------------------------- run_download

\* jobs[job_id].update(fields) / job.update(fields) on one record
\* variant: the update lands on the newest record instead of the runner's own
Update_Latest(job_id, fields) ==
    [jobs EXCEPT ![Max(DOMAIN jobs)] =
        [k \in DOMAIN jobs[job_id] |->
            IF k \in DOMAIN fields THEN fields[k] ELSE jobs[Max(DOMAIN jobs)][k]]]

Update(job_id, fields) ==
    [jobs EXCEPT ![job_id] =
        [k \in DOMAIN jobs[job_id] |->
            IF k \in DOMAIN fields THEN fields[k] ELSE jobs[job_id][k]]]

Goto(t, pc) == th' = [th EXCEPT ![t].pc = pc]

\* variant: the critical section is entered without taking the lock
Acquire_NoLock(t) == lock = Free /\ lock' = lock

\* `with jobs_lock:` entered by thread t
Acquire(t) == lock = Free /\ lock' = t

Release(t) == lock' = Free

\* lines 174-283: read the payload and build the options.  No try block
\* encloses them: a non-string uaCustom raises AttributeError at line 181 and
\* the thread ends there
Setup(t) ==
    /\ th[t].pc = "setup"
    /\ IF th[t].payload.uaCustom = NonStr
       THEN th' = [th EXCEPT ![t] = [DoneThread(t) EXCEPT !.pc = "crashed"]]
       ELSE Goto(t, "start_lock")
    /\ UNCHANGED <<jobs, lock, disk, now, sub, returned, fq, resp, quota, nev>>

\* lines 285-286
StartAcquire(t) ==
    /\ th[t].pc = "start_lock"
    /\ Acquire(t)
    /\ Goto(t, "start_upd")
    /\ UNCHANGED <<jobs, disk, now, sub, returned, fq, resp, quota, nev>>

\* variant: the lock stays held while the fetcher runs
StartUpdate_KeepLock(t) ==
    /\ th[t].pc = "start_upd"
    /\ jobs' = Update(th[t].job_id, [state |-> "starting", progress |-> Some(0)])
    /\ Goto(t, "fetch")
    /\ UNCHANGED <<lock, disk, now, sub, returned, fq, resp, quota, nev>>

StartUpdate(t) ==
    /\ th[t].pc = "start_upd"
    /\ jobs' = Update(th[t].job_id, [state |-> "starting", progress |-> Some(0)])
    /\ Release(t)
    /\ Goto(t, "fetch")
    /\ UNCHANGED <<disk, now, sub, returned, fq, resp, quota, nev>>

\* ---- the progress callback (lines 242-269)

EventTotal(d) ==
    IF d.total_bytes # 0 THEN d.total_bytes ELSE d.total_bytes_estimate

\* line 251: None / total raises TypeError
hook_raises(d) == EventTotal(d) # 0 /\ d.downloaded_bytes = NoNum

hook_percent(d) ==
    IF EventTotal(d) # 0
    THEN Some(Round2Percent(d.downloaded_bytes[1], EventTotal(d)))
    ELSE NoNum

\* the record after hook(d)
hook(job, d) ==
    LET j1 == IF Truthy(d.id) THEN [job EXCEPT !.video_id = d.id] ELSE job
        j2 == IF Truthy(d.filename) THEN [j1 EXCEPT !.filename = d.filename] ELSE j1
    IN IF d.status = "downloading"
       THEN [j2 EXCEPT !.state = "downloading", !.progress = hook_percent(d),
                       !.eta = EventEta(d), !.speed = EventSpeed(d)]
       ELSE IF d.status = "finished"
       THEN [j2 EXCEPT !.state = "processing", !.progress = Some(10000)]
       ELSE j2

\* the fetcher, inside extract_info, calls hook(d) on the runner's thread
HookAcquire(t) ==
    /\ th[t].pc = "fetch"
    /\ nev < MaxEvents
    /\ Acquire(t)
    /\ Goto(t, "hook")
    /\ UNCHANGED <<jobs, disk, now, sub, returned, fq, resp, quota, nev>>

\* variant: the callback uses the record without testing that it is there
HookBody_NoGuard(t, d) ==
    /\ th[t].pc = "hook"
    /\ Release(t)
    /\ IF th[t].job_id \notin DOMAIN jobs
       THEN /\ th' = [th EXCEPT ![t].pc = "exc_lock", ![t].exc = "AttributeError"]
            /\ UNCHANGED jobs
       ELSE IF hook_raises(d)
       THEN /\ th' = [th EXCEPT ![t].pc = "exc_lock", ![t].exc = "TypeError"]
            /\ UNCHANGED jobs
       ELSE /\ Goto(t, "fetch")
            /\ jobs' = [jobs EXCEPT ![th[t].job_id] = hook(@, d)]
    /\ nev' = nev + 1
    /\ UNCHANGED <<disk, now, sub, returned, fq, resp, quota>>

HookBody(t, d) ==
    /\ th[t].pc = "hook"
    /\ Release(t)
    /\ IF th[t].job_id \notin DOMAIN jobs
       THEN /\ Goto(t, "fetch")
            /\ UNCHANGED jobs
       ELSE IF hook_raises(d)
       THEN /\ th' = [th EXCEPT ![t].pc = "exc_lock", ![t].exc = "TypeError"]
            /\ UNCHANGED jobs
       ELSE /\ Goto(t, "fetch")
            /\ jobs' = [jobs EXCEPT ![th[t].job_id] = hook(@, d)]
    /\ nev' = nev + 1
    /\ UNCHANGED <<disk, now, sub, returned, fq, resp, quota>>

\* ---- the postprocessor callback (lines 271-280), for an event whose status
\* is "finished" and whose path fp is set; any other event takes no lock
PPAcquire(t) ==
    /\ th[t].pc = "fetch"
    /\ nev < MaxEvents
    /\ Acquire(t)
    /\ Goto(t, "pp_hook")
    /\ UNCHANGED <<jobs, disk, now, sub, returned, fq, resp, quota, nev>>

pp_hook(job, fp) == [job EXCEPT !.pp_filename = fp]

PPBody(t, fp) ==
    /\ th[t].pc = "pp_hook"
    /\ Release(t)
    /\ Goto(t, "fetch")
    /\ IF th[t].job_id \in DOMAIN jobs
       THEN jobs' = [jobs EXCEPT ![th[t].job_id] = pp_hook(@, fp)]
       ELSE UNCHANGED jobs
    /\ nev' = nev + 1
    /\ UNCHANGED <<disk, now, sub, returned, fq, resp, quota>>

\* ---- lines 290-291: the fetcher returns, leaving its output (if any) on disk
FetchReturn(t, info, out) ==
    /\ th[t].pc = "fetch"
    /\ th' = [th EXCEPT ![t].pc = "merge_lock", ![t].info = info]
    /\ disk' = IF out = None THEN disk ELSE Put(disk, out, now)
    /\ UNCHANGED <<jobs, lock, now, sub, returned, fq, resp, quota, nev>>

\* ... or raises (YoutubeDL(...) or extract_info)
FetchRaise(t) ==
    /\ th[t].pc = "fetch"
    /\ th' = [th EXCEPT ![t].pc = "exc_lock", ![t].exc = "network error"]
    /\ UNCHANGED <<jobs, lock, disk, now, sub, returned, fq, resp, quota, nev>>

\* ---- lines 294-296
MergeExt(payload) ==
    IF Truthy(payload.merge) /\ payload.merge # "auto" /\ payload.resolution # "10"
    THEN payload.merge ELSE ""

MergeAcquire(t) ==
    /\ th[t].pc = "merge_lock"
    /\ Acquire(t)
    /\ Goto(t, "merge_upd")
    /\ UNCHANGED <<jobs, disk, now, sub, returned, fq, resp, quota, nev>>

MergeUpdate(t) ==
    /\ th[t].pc = "merge_upd"
    /\ jobs' = Update(th[t].job_id, [merge_ext |-> MergeExt(th[t].payload)])
    /\ Release(t)
    /\ Goto(t, "resolve")
    /\ UNCHANGED <<disk, now, sub, returned, fq, resp, quota, nev>>

\* ---- line 297: the resolver runs outside the lock
Resolve(t, p) ==
    /\ th[t].pc = "resolve"
    /\ LET me == th[t]
           job == jobs[me.job_id]
           pl == me.payload
       IN /\ ~resolve_raises(disk, me.info, job, pl.resolution, pl.audioFmt, pl.merge)
          /\ p \in resolve_final_file(disk, me.info, job, pl.resolution, pl.audioFmt,
                                      pl.merge)
    /\ th' = [th EXCEPT ![t].pc = "fin_lock", ![t].final_path = p]
    /\ UNCHANGED <<jobs, lock, disk, now, sub, returned, fq, resp, quota, nev>>

ResolveRaise(t) ==
    /\ th[t].pc = "resolve"
    /\ LET me == th[t]
           pl == me.payload
       IN resolve_raises(disk, me.info, jobs[me.job_id], pl.resolution, pl.audioFmt,
                         pl.merge)
    /\ th' = [th EXCEPT ![t].pc = "exc_lock", ![t].exc = "Invalid suffix"]
    /\ UNCHANGED <<jobs, lock, disk, now, sub, returned, fq, resp, quota, nev>>

\* ---- lines 299-305: jobs[job_id].update({state, ready, file, error}), one
\* key after the other while the lock is held
FinAcquire(t) ==
    /\ th[t].pc = "fin_lock"
    /\ Acquire(t)
    /\ Goto(t, "fin_state")
    /\ UNCHANGED <<jobs, disk, now, sub, returned, fq, resp, quota, nev>>

FinState(t) ==
    /\ th[t].pc = "fin_state"
    /\ jobs' = Update(th[t].job_id, [state |-> "finished"])
    /\ Goto(t, "fin_ready")
    /\ UNCHANGED <<lock, disk, now, sub, returned, fq, resp, quota, nev>>

\* variant: ready is set whether or not a path was resolved
FinReady_Always(t) ==
    /\ th[t].pc = "fin_ready"
    /\ jobs' = Update(th[t].job_id, [ready |-> TRUE])
    /\ Goto(t, "fin_file")
    /\ UNCHANGED <<lock, disk, now, sub, returned, fq, resp, quota, nev>>

FinReady(t) ==
    /\ th[t].pc = "fin_ready"
    /\ jobs' = Update(th[t].job_id, [ready |-> th[t].final_path # None])
    /\ Goto(t, "fin_file")
    /\ UNCHANGED <<lock, disk, now, sub, returned, fq, resp, quota, nev>>

FinFile(t) ==
    /\ th[t].pc = "fin_file"
    /\ jobs' = Update(th[t].job_id, [file |-> th[t].final_path])
    /\ Goto(t, "fin_error")
    /\ UNCHANGED <<lock, disk, now, sub, returned, fq, resp, quota, nev>>

\* variant: the explanation is written whether or not a path was resolved
FinError_AlwaysText(t) ==
    /\ th[t].pc = "fin_error"
    /\ jobs' = Update(th[t].job_id, [error |-> "File not found after download"])
    /\ Release(t)
    /\ th' = [th EXCEPT ![t] = DoneThread(t)]
    /\ UNCHANGED <<disk, now, sub, returned, fq, resp, quota, nev>>

\* variant: a resolution failure leaves no explanation behind
FinError_NoText(t) ==
    /\ th[t].pc = "fin_error"
    /\ jobs' = Update(th[t].job_id, [error |-> None])
    /\ Release(t)
    /\ th' = [th EXCEPT ![t] = DoneThread(t)]
    /\ UNCHANGED <<disk, now, sub, returned, fq, resp, quota, nev>>

\* variant: the except clause written as a finally clause
FinError_Finally(t) ==
    /\ th[t].pc = "fin_error"
    /\ jobs' = Update(th[t].job_id,
                      [error |-> IF th[t].final_path # None THEN None
                                 ELSE "File not found after download"])
    /\ Release(t)
    /\ th' = [th EXCEPT ![t].pc = "exc_lock", ![t].exc = "finally"]
    /\ UNCHANGED <<disk, now, sub, returned, fq, resp, quota, nev>>

FinError(t) ==
    /\ th[t].pc = "fin_error"
    /\ jobs' = Update(th[t].job_id,
                      [error |-> IF th[t].final_path # None THEN None
                                 ELSE "File not found after download"])
    /\ Release(t)
    /\ th' = [th EXCEPT ![t] = DoneThread(t)]
    /\ UNCHANGED <<disk, now, sub, returned, fq, resp, quota, nev>>

\* ---- lines 307-312: the except clause
ExcAcquire(t) ==
    /\ th[t].pc = "exc_lock"
    /\ Acquire(t)
    /\ Goto(t, "exc_state")
    /\ UNCHANGED <<jobs, disk, now, sub, returned, fq, resp, quota, nev>>

\* variant: the except clause records the message but not the state
ExcState_Skip(t) ==
    /\ th[t].pc = "exc_state"
    /\ Goto(t, "exc_error")
    /\ UNCHANGED <<jobs, lock, disk, now, sub, returned, fq, resp, quota, nev>>

ExcState(t) ==
    /\ th[t].pc = "exc_state"
    /\ jobs' = Update(th[t].job_id, [state |-> "error"])
    /\ Goto(t, "exc_error")
    /\ UNCHANGED <<lock, disk, now, sub, returned, fq, resp, quota, nev>>

ExcError(t) ==
    /\ th[t].pc = "exc_error"
    /\ jobs' = Update(th[t].job_id, [error |-> th[t].exc])
    /\ Release(t)
    /\ th' = [th EXCEPT ![t] = DoneThread(t)]
    /\ UNCHANGED <<disk, now, sub, returned, fq, resp, quota, nev>>

\* ---------------------------------------------------------------- api_status

StatusBody(job) ==
    [id |-> job.id, state |-> job.state, progress |-> job.progress, eta |-> job.eta,
     speed |-> job.speed, ready |-> job.ready, error |-> job.error]

\* lines 347-361: the whole handler is one critical section
api_status(registry, job_id) ==
    IF job_id \notin DOMAIN registry
    THEN [op |-> "status", id |-> job_id, code |-> 404]
    ELSE [op |-> "status", id |-> job_id, code |-> 200,
          body |-> StatusBody(registry[job_id])]

ApiStatus(job_id) ==
    /\ lock = Free
    /\ resp' = api_status(jobs, job_id)
    /\ UNCHANGED <<jobs, lock, th, disk, now, sub, returned, fq, quota, nev>>

\* ------------------------------------------------------------------ api_file

\* lines 365-371: look the record up under the lock
ApiFileLookup(job_id) ==
    /\ fq.pc = "idle"
    /\ lock = Free
    /\ IF job_id \notin DOMAIN jobs
       THEN /\ resp' = [op |-> "file", id |-> job_id, code |-> 404]
            /\ UNCHANGED fq
       ELSE IF ~jobs[job_id].ready \/ ~Truthy(jobs[job_id].file)
       THEN /\ resp' = [op |-> "file", id |-> job_id, code |-> 409]
            /\ UNCHANGED fq
       ELSE /\ fq' = [pc |-> "check", job_id |-> job_id, path |-> jobs[job_id].file]
            /\ UNCHANGED resp
    /\ UNCHANGED <<jobs, lock, th, disk, now, sub, returned, quota, nev>>

\* variant: the existence check is left out
ApiFileCheck_NoCheck ==
    /\ fq.pc = "check"
    /\ fq' = [fq EXCEPT !.pc = "send"]
    /\ UNCHANGED <<jobs, lock, th, disk, now, sub, returned, resp, quota, nev>>

\* lines 373-375: p.exists(), outside the lock
ApiFileCheck ==
    /\ fq.pc = "check"
    /\ IF Exists(disk, fq.path)
       THEN /\ fq' = [fq EXCEPT !.pc = "send"]
            /\ UNCHANGED resp
       ELSE /\ resp' = [op |-> "file", id |-> fq.job_id, code |-> 410]
            /\ fq' = NoFq
    /\ UNCHANGED <<jobs, lock, th, disk, now, sub, returned, quota, nev>>

\* lines 377-387: p.stat() or send_file(p); a file deleted since the check
\* makes them raise, which Flask answers 500
ApiFileSend ==
    /\ fq.pc = "send"
    /\ resp' = [op |-> "file", id |-> fq.job_id,
                code |-> IF Exists(disk, fq.path) THEN 200 ELSE 500,
                path |-> fq.path]
    /\ fq' = NoFq
    /\ UNCHANGED <<jobs, lock, th, disk, now, sub, returned, quota, nev>>

\* --------------------------------------------------------------- environment

\* something outside the program removes an entry of DOWNLOAD_DIR
DeleteFile(n) ==
    /\ n \in DOMAIN disk
    /\ disk' = Del(disk, n)
    /\ UNCHANGED <<jobs, lock, th, now, sub, returned, fq, resp, quota, nev>>

\* time passes, by more than the resolver's grace window
Tick ==
    /\ now + GraceSeconds + 1 <= MaxTime
    /\ now' = now + GraceSeconds + 1
    /\ UNCHANGED <<jobs, lock, th, disk, sub, returned, fq, resp, quota, nev>>

\* --------------------------------------------------------------------- system

RunnerStep(t) ==
    \/ Setup(t)
    \/ StartAcquire(t)
    \/ StartUpdate(t)
    \/ HookAcquire(t)
    \/ \E d \in ProgressEvents : HookBody(t, d)
    \/ PPAcquire(t)
    \/ \E fp \in PostprocessPaths : PPBody(t, fp)
    \/ \E info \in Infos, out \in OutNames \cup {None} : FetchReturn(t, info, out)
    \/ FetchRaise(t)
    \/ MergeAcquire(t)
    \/ MergeUpdate(t)
    \/ \E p \in {InDir(n) : n \in DOMAIN disk} \cup {None} : Resolve(t, p)
    \/ ResolveRaise(t)
    \/ FinAcquire(t)
    \/ FinState(t)
    \/ FinReady(t)
    \/ FinFile(t)
    \/ FinError(t)
    \/ ExcAcquire(t)
    \/ ExcState(t)
    \/ ExcError(t)

Submit ==
    \/ \E data \in Payloads : ApiDownloadReject(data)
    \/ \E data \in Payloads, job_id \in FreshIds : ApiDownloadInsert(data, job_id)
    \/ ApiDownloadReturn

Query ==
    \/ \E job_id \in JobIds : ApiStatus(job_id)
    \/ \E job_id \in JobIds : ApiFileLookup(job_id)
    \/ ApiFileCheck
    \/ ApiFileSend

Environment ==
    \/ \E n \in DOMAIN disk : DeleteFile(n)
    \/ Tick

Next ==
    \/ \E t \in Threads : RunnerStep(t)
    \/ Submit
    \/ Query
    \/ Environment

Spec == Init /\ [][Next]_vars

\* MaxJobs jobs side by side: submissions and runners
NextJobs ==
    \/ \E t \in Threads : RunnerStep(t)
    \/ \E data \in Payloads, job_id \in FreshIds : ApiDownloadInsert(data, job_id)
    \/ ApiDownloadReturn

SpecJobs == InitJobs /\ [][NextJobs]_vars

\* MaxJobs jobs whose identifiers are whatever uuid4().hex[:12] happens to
\* return: line 327 draws 48 random bits and looks nothing up in the registry
Uuid12 == JobIds

NextIds ==
    \/ \E t \in Threads : RunnerStep(t)
    \/ \E data \in Payloads, job_id \in Uuid12 : ApiDownloadInsert(data, job_id)
    \/ ApiDownloadReturn

SpecIds == InitJobs /\ [][NextIds]_vars

\* the output resolver on its own: a runner that is about to call
\* resolve_final_file (line 297), for every combination of recorded hints,
\* fetcher result, request options and content of DOWNLOAD_DIR drawn below
ResolveNames == {"old.bin", "v.webm", "v.mp4", "T [a].mp4", "xa.bin"}

ResolveMtime(n) == IF n = "old.bin" THEN 0 ELSE ServerStart

ResolvePayloads ==
    {Payload("http://x", "4", "m4a", ""), Payload("http://x", "10", "m4a", ""),
     Payload("http://x", "10", "", "")}

\* the record as the callbacks and lines 285-296 leave it
HintedJob(video_id, filename, pp_filename, pl) ==
    LET j0 == [NewJob(1, ServerStart) EXCEPT !.state = "starting"]
        j1 == IF video_id = None THEN j0
              ELSE hook(j0, Event("downloading", Some(1), 0, 0, video_id, None))
        j2 == IF filename = None THEN j1
              ELSE hook(j1, Event("finished", Some(2), 2, 0, None, filename))
        j3 == IF pp_filename = None THEN j2 ELSE pp_hook(j2, pp_filename)
    IN [j3 EXCEPT !.merge_ext = MergeExt(pl)]

InitResolve ==
    /\ \E S \in SUBSET ResolveNames : disk = [n \in S |-> ResolveMtime(n)]
    /\ \E pl \in ResolvePayloads, info \in Infos :
          /\ th = [t \in Threads |->
                     IF t = 1 THEN [IdleThread EXCEPT !.pc = "resolve", !.job_id = 1,
                                                      !.payload = pl, !.info = info]
                     ELSE IdleThread]
          /\ \E video_id \in {None, "a"}, filename \in {None, InDir("v.webm")},
                pp_filename \in {None, InDir("v.mp4"), InDir("w.mp4")} :
                jobs = [j \in {1} |-> HintedJob(video_id, filename, pp_filename, pl)]
    /\ lock = Free
    /\ now = ServerStart
    /\ sub = NoSub
    /\ returned = {1}
    /\ fq = NoFq
    /\ resp = [op |-> "download", id |-> 1, code |-> 200]
    /\ quota = 0
    /\ nev = 0

NextResolve ==
    \/ \E t \in Threads, p \in {InDir(n) : n \in DOMAIN disk} \cup {None} : Resolve(t, p)
    \/ \E t \in Threads : ResolveRaise(t)

SpecResolve == InitResolve /\ [][NextResolve]_vars

\* the two callbacks on their own: runners inside extract_info, for every
\* registry drawn below, with and without the records of their jobs.  (The
\* program itself never removes a record; the callbacks test for one.)
InitCallbacks ==
    /\ \E D \in SUBSET JobIds :
          jobs = [j \in D |-> [NewJob(j, ServerStart) EXCEPT !.state = "starting"]]
    /\ th = [t \in Threads |->
                [IdleThread EXCEPT !.pc = "fetch", !.job_id = t,
                                   !.payload = Payload("http://x", "4", "m4a", "")]]
    /\ lock = Free
    /\ disk = [n \in {"old.bin"} |-> 0]
    /\ now = ServerStart
    /\ sub = NoSub
    /\ returned = JobIds
    /\ fq = NoFq
    /\ resp = NoResp
    /\ quota = 0
    /\ nev = 0

NextCallbacks ==
    \E t \in Threads :
        \/ HookAcquire(t)
        \/ \E d \in ProgressEvents : HookBody(t, d)
        \/ PPAcquire(t)
        \/ \E fp \in PostprocessPaths : PPBody(t, fp)

SpecCallbacks == InitCallbacks /\ [][NextCallbacks]_vars

\* one submission under fair scheduling: every thread that can take a step
\* eventually takes one, and so does the handler that starts it
SpecFair ==
    /\ Init
    /\ [][NextJobs]_vars
    /\ WF_vars(ApiDownloadReturn)
    /\ \A t \in Threads : SF_vars(RunnerStep(t))

\* ------------------------------------------------------------------ claims

JobOf(t) == jobs[th[t].job_id]

Running(t) == th[t].pc \notin {"idle", "done", "crashed"}

Terminal(j) == j \in DOMAIN jobs /\ jobs[j].state \in {"finished", "error"}

\* C1: a status query for an identifier that api_download has returned
\* answers 200 with one of the six states, never 404
C1_StatusResolves ==
    [][\A j \in returned :
          ApiStatus(j) => resp'.code = 200 /\ resp'.body.state \in States]_vars

C1_Witness ==
    /\ resp.op = "status"
    /\ resp.code = 200
    /\ resp.id \in returned
    /\ resp.body.state = "downloading"

\* C2: every job in the registry eventually reaches finished or error
C2_EventuallyTerminal == \A j \in JobIds : (j \in DOMAIN jobs) ~> Terminal(j)

\* C3: no step moves a job's state backwards in the order queued, starting,
\* downloading, processing, finished (a move to error is always allowed)
Rank(state) ==
    CASE state = "queued" -> 0
      [] state = "starting" -> 1
      [] state = "downloading" -> 2
      [] state = "processing" -> 3
      [] state = "finished" -> 4
      [] state = "error" -> 5

C3_NoRegress ==
    [][\A j \in DOMAIN jobs : Rank(jobs'[j].state) >= Rank(jobs[j].state)]_vars

\* C4: once a job's state is finished or error, no step changes it
C4_TerminalStable ==
    [][\A j \in DOMAIN jobs :
          jobs[j].state \in {"finished", "error"} => jobs'[j].state = jobs[j].state]_vars

C4_Witness ==
    \E t \in Threads :
        /\ th[t].pc = "done"
        /\ JobOf(t).state = "finished"
        /\ \E u \in Threads : u # t /\ th[u].pc = "hook"

\* C5: whenever the lock is free, no record has ready without a file, and no
\* record has a non-empty error together with ready
C5_NoTornRead ==
    lock = Free =>
        \A j \in DOMAIN jobs :
            /\ ~(jobs[j].ready /\ jobs[j].file = None)
            /\ ~(jobs[j].ready /\ Truthy(jobs[j].error))

C5_Witness ==
    /\ lock = Free
    /\ \E j \in DOMAIN jobs : jobs[j].ready /\ jobs[j].file # None
    /\ \E t \in Threads : th[t].pc = "fin_lock"

\* C6: ready and file change only inside the runner's finalization, under the
\* lock and in state finished; when the lock is released both are set or
\* neither; and once set neither changes again
C6_FileReadyOnce ==
    [][\A j \in DOMAIN jobs :
          LET a == jobs[j]
              b == jobs'[j]
          IN /\ (a.ready => b.ready)
             /\ (a.file # None => b.file = a.file)
             /\ (b.ready # a.ready \/ b.file # a.file) =>
                    /\ b.state = "finished"
                    /\ \E t \in Threads :
                          /\ lock = t
                          /\ th[t].job_id = j
                          /\ th[t].pc \in {"fin_ready", "fin_file"}
             /\ (lock' = Free => (b.ready <=> b.file # None))]_vars

C6_Witness ==
    \E t \in Threads :
        /\ th[t].pc = "done"
        /\ JobOf(t).ready
        /\ JobOf(t).file # None
        /\ \E u \in Threads : u # t /\ Running(u)

\* C7: a stored progress value lies between 0 and 100 (0 and 10000 hundredths)
C7_ProgressInRange ==
    \A j \in DOMAIN jobs :
        jobs[j].progress # NoNum => jobs[j].progress[1] \in 0..10000

\* C8: while a job is downloading or processing, no step lowers its stored
\* progress or unsets it
C8_ProgressMonotone ==
    [][\A j \in DOMAIN jobs :
          (jobs[j].state \in {"downloading", "processing"} /\ jobs[j].progress # NoNum)
              => /\ jobs'[j].progress # NoNum
                 /\ jobs'[j].progress[1] >= jobs[j].progress[1]]_vars

\* C9: api_file answers 404 exactly for an unknown identifier, 409 exactly
\* for a record that is not ready, 410 when its existence check finds the
\* path of a ready record missing, and 200 only for a ready record whose path
\* exists; no step of it changes the registry
C9_Retrieval ==
    [][/\ \A j \in JobIds :
            ApiFileLookup(j) =>
                /\ jobs' = jobs
                /\ (resp' # resp \/ fq' = fq) =>
                        /\ resp'.op = "file" /\ resp'.id = j
                        /\ resp'.code \in {404, 409}
                        /\ resp'.code = 404 <=> j \notin DOMAIN jobs
                        /\ resp'.code = 409 <=> (j \in DOMAIN jobs /\ ~jobs[j].ready)
                /\ fq' # fq =>
                        /\ jobs[j].ready
                        /\ fq'.path = jobs[j].file
                        /\ resp' = resp
       /\ ApiFileCheck =>
            /\ jobs' = jobs
            /\ jobs[fq.job_id].ready
            /\ IF Exists(disk, jobs[fq.job_id].file)
               THEN resp' = resp /\ fq'.pc = "send"
               ELSE resp'.op = "file" /\ resp'.id = fq.job_id /\ resp'.code = 410
       /\ ApiFileSend =>
            /\ jobs' = jobs
            /\ resp'.op = "file" /\ resp'.id = fq.job_id
            /\ resp'.code = 200 =>
                    /\ jobs[fq.job_id].ready
                    /\ Exists(disk, jobs[fq.job_id].file)
                    /\ resp'.path = jobs[fq.job_id].file]_vars

C9_Witness ==
    /\ resp.op = "file"
    /\ resp.code = 410
    /\ resp.id \in DOMAIN jobs
    /\ jobs[resp.id].ready

\* C10: a runner that caught an exception ends with its job in state error,
\* the message as error, ready false and no file
C10_RaiseEndsInError ==
    \A t \in Threads :
        (th[t].pc \in {"done", "crashed"} /\ th[t].exc # None) =>
            /\ JobOf(t).state = "error"
            /\ JobOf(t).error = th[t].exc
            /\ ~JobOf(t).ready
            /\ JobOf(t).file = None

C10_Witness ==
    \E t \in Threads :
        /\ th[t].pc = "done"
        /\ th[t].exc = "Invalid suffix"
        /\ JobOf(t).state = "error"
        /\ JobOf(t).filename # None

\* C11: when the fetcher has returned and the resolver found no artifact, the
\* runner's last step leaves the job finished, not ready, without a file and
\* with the error text "File not found after download"
C11_ResolutionFailure ==
    [][\A t \in Threads :
          (th[t].pc = "fin_error" /\ th[t].final_path = None /\ th'[t].pc = "done")
              => /\ jobs'[th[t].job_id].state = "finished"
                 /\ ~jobs'[th[t].job_id].ready
                 /\ jobs'[th[t].job_id].file = None
                 /\ jobs'[th[t].job_id].error = "File not found after download"
                 /\ th'[t].exc = None]_vars

C11_Witness ==
    \E t \in Threads :
        /\ th[t].pc = "done"
        /\ th[t].exc = None
        /\ JobOf(t).state = "finished"
        /\ ~JobOf(t).ready
        /\ JobOf(t).filename # None

\* C12: a submission whose url is missing, empty or blank is answered 400
\* without an identifier; it adds no record, starts no thread and leaves the
\* registry as it was
Blank(s) == \A i \in 1..Len(s) : CharAt(s, i) = " "

C12_BlankRejected ==
    [][/\ \A data \in Payloads :
            (Blank(data.url) /\ sub.pc = "idle") => ENABLED ApiDownloadReject(data)
       /\ (DOMAIN jobs' # DOMAIN jobs \/ returned' # returned)
            => ~Blank(sub.payload.url) \/ ~Blank(sub'.payload.url)
       /\ \A t \in Threads :
            (th[t].pc = "idle" /\ th'[t].pc # "idle") => ~Blank(th'[t].payload.url)
       /\ (resp' # resp /\ resp'.op = "download" /\ resp'.code = 400)
            => /\ resp'.id \notin JobIds
               /\ jobs' = jobs
               /\ th' = th
               /\ returned' = returned
               /\ sub' = sub]_vars

C12_Witness ==
    /\ resp.op = "download"
    /\ resp.code = 400
    /\ \E j \in DOMAIN jobs : jobs[j].state = "downloading"

\* C13: a record with a non-empty error has state error
C13_ErrorOnlyInError ==
    \A j \in DOMAIN jobs : Truthy(jobs[j].error) => jobs[j].state = "error"

\* C13, amended: a record with a non-empty error has state error, or it is a
\* finished record that is not ready, has no file and carries the text
\* "File not found after download"
C13_ErrorStates ==
    \A j \in DOMAIN jobs :
        Truthy(jobs[j].error) =>
            \/ jobs[j].state = "error"
            \/ /\ jobs[j].state = "finished"
               /\ ~jobs[j].ready
               /\ jobs[j].file = None
               /\ jobs[j].error = "File not found after download"

C13_Witness ==
    \E t, u \in Threads :
        /\ th[t].pc = "done" /\ th[u].pc = "done"
        /\ JobOf(t).state = "finished" /\ Truthy(JobOf(t).error)
        /\ JobOf(u).state = "error" /\ JobOf(u).error = "TypeError"

\* C14: a submission never takes an identifier that already names a record,
\* and inserting its record leaves every existing record as it was
C14_NoReuse ==
    [][(sub.pc = "idle" /\ sub'.pc = "spawn")
          => /\ sub'.job_id \notin DOMAIN jobs
             /\ \A j \in DOMAIN jobs : jobs'[j] = jobs[j]]_vars

\* C15: when the post-process hint exists on disk and the output directory
\* holds an entry whose name carries the external identifier in brackets,
\* the resolver returns such an entry, not the hint
HasBracketedId(name, video_id) ==
    LET tag == "[" \o video_id \o "]."
    IN \E i \in 1..Len(name) :
          i + Len(tag) - 1 <= Len(name) /\ SubSeq(name, i, i + Len(tag) - 1) = tag

C15_IdMatchWins ==
    \A t \in Threads :
        LET job == JobOf(t) IN
        (/\ th[t].pc = "fin_lock"
         /\ Truthy(job.video_id)
         /\ Truthy(job.pp_filename)
         /\ Exists(disk, job.pp_filename)
         /\ \E n \in DOMAIN disk : HasBracketedId(n, job.video_id))
            => /\ th[t].final_path # None
               /\ HasBracketedId(PathName(th[t].final_path), job.video_id)

\* C16: when both hints are recorded, step 1 finds nothing, no candidate of
\* the post-process hint exists and the observed hint's path exists, the
\* resolver returns a candidate derived from the observed hint
HintBatch(base, pl) ==
    {base} \cup
    (IF pl.resolution = "10" THEN {with_suffix(base, "." \o pl.audioFmt)}
     ELSE {with_suffix(base, ".mp4"), with_suffix(base, ".mkv")} \cup
          (IF Truthy(pl.merge) /\ pl.merge # "auto"
           THEN {with_suffix(base, "." \o pl.merge)} ELSE {}))

C16_ObservedHintTried ==
    \A t \in Threads :
        LET job == JobOf(t)
            pl == th[t].payload
        IN (/\ th[t].pc = "fin_lock"
            /\ Truthy(job.pp_filename)
            /\ Truthy(job.filename)
            /\ find_final_file(disk, ResolveVideoId(th[t].info, job)) = {None}
            /\ \A c \in HintBatch(job.pp_filename, pl) : ~Exists(disk, c)
            /\ Exists(disk, job.filename))
               => th[t].final_path \in HintBatch(job.filename, pl)

\* C17: once a record's external identifier (video_id) is set, no later
\* progress event changes it
C17_ExternalIdSetOnce ==
    [][\A j \in DOMAIN jobs :
          Truthy(jobs[j].video_id) => jobs'[j].video_id = jobs[j].video_id]_vars

\* C18: the lock is held only by a runner thread inside one of its record
\* updates or callbacks, never while the fetcher runs, the resolver looks at
\* the directory or api_file looks at the file; its holder can always take
\* its next step and soon releases it, so a status query waits for no job
CriticalPcs ==
    {"start_upd", "hook", "pp_hook", "merge_upd", "fin_state", "fin_ready",
     "fin_file", "fin_error", "exc_state", "exc_error"}

LockDiscipline ==
    /\ lock \in {Free} \cup Threads
    /\ \A t \in Threads : lock = t <=> th[t].pc \in CriticalPcs
    /\ \A t \in Threads : th[t].pc \in {"fetch", "resolve"} => lock # t
    /\ \A t \in Threads : lock = t => ENABLED RunnerStep(t)
    /\ fq.pc = "check" => ENABLED ApiFileCheck
    /\ fq.pc = "send" => ENABLED ApiFileSend
    /\ lock = Free => \A j \in JobIds : ENABLED ApiStatus(j)

\* steps the holder at pc still has to take before it releases the lock
StepsToRelease(pc) ==
    CASE pc = "fin_state" -> 4
      [] pc = "fin_ready" -> 3
      [] pc = "fin_file" -> 2
      [] pc = "exc_state" -> 2
      [] OTHER -> 1

HolderAdvances ==
    lock # Free =>
        \/ lock' = Free
        \/ lock' = lock /\ th'[lock] = th[lock]
        \/ /\ lock' = lock
           /\ StepsToRelease(th'[lock].pc) < StepsToRelease(th[lock].pc)

C18_LockNeverHeldAcrossIO == []LockDiscipline /\ [][HolderAdvances]_vars

C18_Witness ==
    /\ lock = Free
    /\ \E t \in Threads : th[t].pc = "fetch" /\ JobOf(t).state = "processing"
    /\ resp.op = "status"
    /\ resp.code = 200
    /\ resp.body.state = "processing"

\* C19: a progress or postprocess callback that finds no record for its job
\* returns to the fetcher: it raises nothing, releases the lock, creates no
\* record and leaves the registry as it was
C19_AbsentRecordTolerated ==
    [][\A t \in Threads :
          (/\ th[t].pc \in {"hook", "pp_hook"}
           /\ th[t].job_id \notin DOMAIN jobs
           /\ th'[t] # th[t])
              => /\ jobs' = jobs
                 /\ lock' = Free
                 /\ th'[t].pc = "fetch"
                 /\ th'[t].exc = None]_vars

C19_Witness ==
    /\ jobs = <<>>
    /\ nev = MaxEvents
    /\ lock = Free
    /\ \A t \in Threads : th[t].pc = "fetch"

\* C20: a step of one job's runner (a record update, a progress callback, a
\* postprocess callback) changes no field of any other job's record and
\* removes none
C20_Isolation ==
    [][\A t \in Threads :
          (th[t].pc # "idle" /\ th'[t] # th[t])
              => \A j \in DOMAIN jobs \ {th[t].job_id} :
                    j \in DOMAIN jobs' /\ jobs'[j] = jobs[j]]_vars

C20_Witness ==
    \E t, u \in Threads :
        /\ t # u
        /\ th[t].pc = "hook"
        /\ JobOf(t).state = "starting"
        /\ th[u].pc = "fetch"
        /\ JobOf(u).state = "downloading"
        /\ JobOf(u).video_id = "a"

====
